---------------------------- MODULE Spec2Model ----------------------------
(***************************************************************************)
(* A model of three parts of anomalib:                                     *)
(*   - deploy/inferencers/base_inferencer.py: Inferencer.predict and       *)
(*     Inferencer._normalize;                                              *)
(*   - data/base/datamodule.py: AnomalibDataModule (setup, _setup,         *)
(*     _create_test_split, _create_val_split, is_setup);                   *)
(*   - data/depth/folder_3d.py: make_folder3d_dataset, Folder3DDataset.    *)
(* Each part has its own specification over the module's variables.        *)
(***************************************************************************)
EXTENDS Integers, Sequences, FiniteSets, TLC

VARIABLES
    \* ---- Inferencer.predict ----
    pc,             \* position inside predict: idle, pre, fwd, post, ret, done
    args,           \* the arguments of the running predict call
    self_metadata,  \* <<>> when the inferencer has no attribute metadata, else <<dict>>
    frame,          \* predict's locals: image_arr, metadata, processed_image, ...
    calls,          \* the calls of the abstract methods made by the running predict
    result,         \* <<>> or <<ImageResult>>
    \* ---- Inferencer._normalize ----
    norm_in,        \* <<>> or <<arguments of the last _normalize call>>
    norm_out,       \* <<>> or <<outcome of the last _normalize call>>
    \* ---- AnomalibDataModule ----
    datamodule,     \* <<>> before __init__ has returned, else <<the datamodule>>
    last,           \* what the last operation on the datamodule did
    runs,           \* how often setup, _setup and the split methods have run
    \* ---- make_folder3d_dataset ----
    folder_args,    \* <<>> or <<arguments and directory contents of the call>>
    folder_out      \* <<>> or <<outcome of the call>>

predictVars == <<pc, args, self_metadata, frame, calls, result>>
normalizeVars == <<norm_in, norm_out>>
dmVars == <<datamodule, last, runs>>
folderVars == <<folder_args, folder_out>>

vars == <<predictVars, normalizeVars, dmVars, folderVars>>

-----------------------------------------------------------------------------
(* Bounds *)

MaxImage == 2       \* image arrays / image files are numbered 1..MaxImage
MaxVal == 2         \* scores, pixels, thresholds, min and max range over 0..MaxVal
MaxPix == 1         \* an anomaly map has 1..MaxPix pixels
Resolution == 2     \* normalised values are kept in steps of 1/(2*Resolution)

-----------------------------------------------------------------------------
(* Python values *)

\* Optional values: None is the empty sequence, a present value x is <<x>>.
None == <<>>
Some(x) == <<x>>
IsNone(o) == o = <<>>
Get(o) == o[1]

\* A dict is a function from a finite set of keys.
EmptyDict == [k \in {} |-> 0]
HasKey(d, k) == k \in DOMAIN d
DictSet(d, k, v) == [x \in (DOMAIN d) \cup {k} |-> IF x = k THEN v ELSE d[x]]
Dicts(keys, values) == UNION {[ks -> values] : ks \in SUBSET keys}

Vals == 0..MaxVal

-----------------------------------------------------------------------------
(* base_inferencer.py: the collaborators of Inferencer.predict *)

\* An image handed to predict is an array (a number) or a path to an image file.
Images == 1..MaxImage

\* read_image(path): the array stored in the file; never one of the arrays
\* handed over directly.
read_image(path) == MaxImage + path

\* image_arr.shape[:2]
shape(image_arr) == image_arr % (MaxVal + 1)

\* The abstract methods: each returns a value determined by its arguments, and
\* different methods never return the same value.
pre_process(image) == [method |-> "pre_process", image |-> image]

forward(image) == [method |-> "forward", image |-> image]

PostField(key, predictions, metadata) ==
    [key |-> key, predictions |-> predictions, metadata |-> metadata]

post_process(predictions, metadata) ==
    [pred_score  |-> PostField("pred_score", predictions, metadata),
     pred_label  |-> PostField("pred_label", predictions, metadata),
     anomaly_map |-> PostField("anomaly_map", predictions, metadata),
     pred_mask   |-> PostField("pred_mask", predictions, metadata),
     pred_boxes  |-> PostField("pred_boxes", predictions, metadata),
     box_labels  |-> PostField("box_labels", predictions, metadata)]

\* ImageResult(image=..., pred_score=..., ...)
ImageResult(image, output) ==
    [image       |-> image,
     pred_score  |-> output.pred_score,
     pred_label  |-> output.pred_label,
     anomaly_map |-> output.anomaly_map,
     pred_mask   |-> output.pred_mask,
     pred_boxes  |-> output.pred_boxes,
     box_labels  |-> output.box_labels]

\* The metadata dicts handed to predict or stored on the inferencer.
PredictMetadata == Dicts({"task", "image_shape"}, Vals)

PredictArgs ==
    [is_path : BOOLEAN, image : Images,
     metadata : {None} \cup {Some(d) : d \in PredictMetadata}]

NoFrame ==
    [image_arr |-> 0, metadata |-> EmptyDict, processed_image |-> None,
     predictions |-> None, output |-> None]

NoArgs == [is_path |-> FALSE, image |-> 1, metadata |-> None]

-----------------------------------------------------------------------------
(* Inferencer.predict, one action per stretch of code between two calls of   *)
(* the abstract methods. __call__(image) is predict(image) with metadata     *)
(* None.                                                                     *)

\* Lines 68-74: default the metadata, read the image, record its shape in the
\* metadata dict (the dict object itself is written to, so a defaulted
\* self.metadata changes too).
predict_enter(a) ==
    /\ pc \in {"idle", "done"}
    /\ LET metadata == IF IsNone(a.metadata)
                       THEN (IF IsNone(self_metadata) THEN EmptyDict
                             ELSE Get(self_metadata))
                       ELSE Get(a.metadata)
           image_arr == IF a.is_path THEN read_image(a.image) ELSE a.image
           md == DictSet(metadata, "image_shape", shape(image_arr))
       IN /\ frame' = [NoFrame EXCEPT !.image_arr = image_arr, !.metadata = md]
          /\ self_metadata' = IF IsNone(a.metadata) /\ ~IsNone(self_metadata)
                              THEN Some(md) ELSE self_metadata
    /\ args' = a
    /\ calls' = <<>>
    /\ result' = None
    /\ pc' = "pre"
    /\ UNCHANGED <<normalizeVars, dmVars, folderVars>>

\* Line 76: processed_image = self.pre_process(image_arr)
predict_pre_process ==
    /\ pc = "pre"
    /\ calls' = Append(calls, [method |-> "pre_process", arg |-> frame.image_arr])
    /\ frame' = [frame EXCEPT !.processed_image = Some(pre_process(frame.image_arr))]
    /\ pc' = "fwd"
    /\ UNCHANGED <<args, self_metadata, result, normalizeVars, dmVars, folderVars>>

\* Line 77: predictions = self.forward(processed_image)
predict_forward ==
    /\ pc = "fwd"
    /\ calls' = Append(calls, [method |-> "forward",
                               arg |-> Get(frame.processed_image)])
    /\ frame' = [frame EXCEPT
                   !.predictions = Some(forward(Get(frame.processed_image)))]
    /\ pc' = "post"
    /\ UNCHANGED <<args, self_metadata, result, normalizeVars, dmVars, folderVars>>

\* Line 78: output = self.post_process(predictions, metadata=metadata)
predict_post_process ==
    /\ pc = "post"
    /\ calls' = Append(calls, [method |-> "post_process",
                               arg |-> Get(frame.predictions),
                               metadata |-> frame.metadata])
    /\ frame' = [frame EXCEPT
                   !.output = Some(post_process(Get(frame.predictions),
                                                frame.metadata))]
    /\ pc' = "ret"
    /\ UNCHANGED <<args, self_metadata, result, normalizeVars, dmVars, folderVars>>

\* predict_return with the ImageResult built on the image argument instead of
\* the array read from it.
predict_return_ArgImage ==
    /\ pc = "ret"
    /\ result' = Some(ImageResult(args.image, Get(frame.output)))
    /\ pc' = "done"
    /\ UNCHANGED <<args, self_metadata, frame, calls, normalizeVars, dmVars, folderVars>>

\* Lines 80-88: return ImageResult(image=image_arr, ...)
predict_return ==
    /\ pc = "ret"
    /\ result' = Some(ImageResult(frame.image_arr, Get(frame.output)))
    /\ pc' = "done"
    /\ UNCHANGED <<args, self_metadata, frame, calls, normalizeVars, dmVars, folderVars>>

\* The parts of the state a specification of another part leaves alone.
PredictIdle ==
    /\ pc = "idle"
    /\ args = NoArgs
    /\ self_metadata = None
    /\ frame = NoFrame
    /\ calls = <<>>
    /\ result = None

NormalizeIdle == norm_in = None /\ norm_out = None

NoLast ==
    [op |-> "none", stage |-> "", raised |-> "", before |-> None, trace |-> <<>>,
     test_split |-> None, val_split |-> None]

NoRuns ==
    [setup |-> 0, returned |-> 0, setup_body |-> 0, test_data_setup |-> 0,
     create_test_split |-> 0, create_val_split |-> 0]

DataModuleIdle ==
    /\ datamodule = None
    /\ last = NoLast
    /\ runs = NoRuns

FolderIdle == folder_args = None /\ folder_out = None

InitPredict ==
    /\ pc = "idle"
    /\ args = NoArgs
    /\ self_metadata \in {None} \cup {Some(d) : d \in PredictMetadata}
    /\ frame = NoFrame
    /\ calls = <<>>
    /\ result = None
    /\ NormalizeIdle /\ DataModuleIdle /\ FolderIdle

NextPredict ==
    \/ \E a \in PredictArgs : predict_enter(a)
    \/ predict_pre_process
    \/ predict_forward
    \/ predict_post_process
    \/ predict_return

SpecPredict == InitPredict /\ [][NextPredict]_vars

-----------------------------------------------------------------------------
(* Claim C1 *)

\* The image array of the running call, and the metadata dict it works on.
OriginalImage == IF args.is_path THEN read_image(args.image) ELSE args.image

EffectiveMetadata ==
    DictSet(IF IsNone(args.metadata)
            THEN (IF IsNone(self_metadata) THEN EmptyDict ELSE Get(self_metadata))
            ELSE Get(args.metadata),
            "image_shape", shape(OriginalImage))

ExpectedCalls ==
    << [method |-> "pre_process", arg |-> OriginalImage],
       [method |-> "forward", arg |-> pre_process(OriginalImage)],
       [method |-> "post_process", arg |-> forward(pre_process(OriginalImage)),
        metadata |-> EffectiveMetadata] >>

ExpectedOutput == post_process(forward(pre_process(OriginalImage)), EffectiveMetadata)

\* C1: every predict call invokes pre_process, then forward, then
\* post_process, each exactly once and in that order; forward receives what
\* pre_process returned, post_process receives what forward returned together
\* with the metadata, and the ImageResult returned carries the original image
\* and the six fields post_process produced.
C1_PredictPipeline ==
    /\ pc = "pre" => calls = <<>>
    /\ pc = "fwd" => calls = SubSeq(ExpectedCalls, 1, 1)
    /\ pc = "post" => calls = SubSeq(ExpectedCalls, 1, 2)
    /\ pc \in {"ret", "done"} => calls = ExpectedCalls
    /\ pc = "done" =>
         result = Some([image       |-> OriginalImage,
                        pred_score  |-> ExpectedOutput.pred_score,
                        pred_label  |-> ExpectedOutput.pred_label,
                        anomaly_map |-> ExpectedOutput.anomaly_map,
                        pred_mask   |-> ExpectedOutput.pred_mask,
                        pred_boxes  |-> ExpectedOutput.pred_boxes,
                        box_labels  |-> ExpectedOutput.box_labels])

\* A predict call on an image path, with the inferencer's own metadata, has
\* returned.
C1_Witness ==
    /\ pc = "done"
    /\ args.is_path
    /\ IsNone(args.metadata)
    /\ ~IsNone(self_metadata)
    /\ Len(calls) = 3
    /\ ~IsNone(result)

-----------------------------------------------------------------------------
(* base_inferencer.py: Inferencer._normalize *)

\* Scores, pixels, thresholds, min and max are fixed-point numbers: the integer
\* v stands for v / Scale, so that Scale is 1.0.
Scale == 2 * Resolution

\* The outcome of 0/0.
NaN == Scale + 1

Clip(x) == IF x < 0 THEN 0 ELSE IF x > Scale THEN Scale ELSE x

\* anomalib.utils.normalization.min_max.normalize on one number:
\* ((target - threshold) / (max_val - min_val)) + 0.5, clipped to [0, 1].
\* A zero divisor gives +inf, -inf (clipped to 1 and 0) or NaN.
normalize_min_max(target, threshold, min_val, max_val) ==
    LET num == target - threshold
        den == max_val - min_val
    IN  IF den > 0 THEN Clip(((num * Scale) \div den) + Resolution)
        ELSE IF den < 0 THEN Clip((((0 - num) * Scale) \div (0 - den)) + Resolution)
        ELSE IF num > 0 THEN Scale
        ELSE IF num < 0 THEN 0
        ELSE NaN

\* The same on every pixel of an anomaly map.
normalize_map(map, threshold, min_val, max_val) ==
    [i \in DOMAIN map |-> normalize_min_max(map[i], threshold, min_val, max_val)]

\* What a call of _normalize ends with: the returned pair, or an exception.
Returned(anomaly_maps, pred_scores) ==
    [raised |-> "", anomaly_maps |-> anomaly_maps, pred_scores |-> Some(pred_scores)]

Raised(exception) == [raised |-> exception, anomaly_maps |-> None, pred_scores |-> None]

\* _normalize with the rescale applied when either key is there.
normalize_EitherKey(pred_scores, metadata, anomaly_maps) ==
    IF HasKey(metadata, "min") \/ HasKey(metadata, "max")
    THEN IF (~IsNone(anomaly_maps) /\ ~HasKey(metadata, "pixel_threshold"))
            \/ ~HasKey(metadata, "image_threshold")
            \/ ~HasKey(metadata, "min") \/ ~HasKey(metadata, "max")
         THEN Raised("KeyError")
         ELSE Returned(IF IsNone(anomaly_maps) THEN None
                       ELSE Some(normalize_map(Get(anomaly_maps),
                                               metadata["pixel_threshold"],
                                               metadata["min"], metadata["max"])),
                       normalize_min_max(pred_scores, metadata["image_threshold"],
                                         metadata["min"], metadata["max"]))
    ELSE Returned(anomaly_maps, pred_scores)

\* _normalize with the two thresholds swapped.
normalize_SwappedThresholds(pred_scores, metadata, anomaly_maps) ==
    IF HasKey(metadata, "min") /\ HasKey(metadata, "max")
    THEN IF (~IsNone(anomaly_maps) /\ ~HasKey(metadata, "pixel_threshold"))
            \/ ~HasKey(metadata, "image_threshold")
         THEN Raised("KeyError")
         ELSE Returned(IF IsNone(anomaly_maps) THEN None
                       ELSE Some(normalize_map(Get(anomaly_maps),
                                               metadata["image_threshold"],
                                               metadata["min"], metadata["max"])),
                       normalize_min_max(pred_scores,
                                         IF HasKey(metadata, "pixel_threshold")
                                         THEN metadata["pixel_threshold"]
                                         ELSE metadata["image_threshold"],
                                         metadata["min"], metadata["max"]))
    ELSE Returned(anomaly_maps, pred_scores)

\* Lines 141-156. metadata["pixel_threshold"] and metadata["image_threshold"]
\* are subscripts: a missing key raises KeyError.
_normalize(pred_scores, metadata, anomaly_maps) ==
    IF HasKey(metadata, "min") /\ HasKey(metadata, "max")
    THEN IF ~IsNone(anomaly_maps) /\ ~HasKey(metadata, "pixel_threshold")
         THEN Raised("KeyError")
         ELSE IF ~HasKey(metadata, "image_threshold")
         THEN Raised("KeyError")
         ELSE Returned(IF IsNone(anomaly_maps) THEN None
                       ELSE Some(normalize_map(Get(anomaly_maps),
                                               metadata["pixel_threshold"],
                                               metadata["min"], metadata["max"])),
                       normalize_min_max(pred_scores, metadata["image_threshold"],
                                         metadata["min"], metadata["max"]))
    ELSE Returned(anomaly_maps, pred_scores)

NormalizeMetadata == Dicts({"min", "max", "image_threshold", "pixel_threshold"}, Vals)

AnomalyMaps == {None} \cup {Some(m) : m \in UNION {[1..n -> Vals] : n \in 1..MaxPix}}

\* A call Inferencer._normalize(pred_scores, metadata, anomaly_maps). The
\* method is static and reads nothing but its arguments: a behaviour is one call.
Normalize(pred_scores, metadata, anomaly_maps) ==
    /\ IsNone(norm_in)
    /\ norm_in' = Some([pred_scores |-> pred_scores, metadata |-> metadata,
                        anomaly_maps |-> anomaly_maps])
    /\ norm_out' = Some(_normalize(pred_scores, metadata, anomaly_maps))
    /\ UNCHANGED <<predictVars, dmVars, folderVars>>

InitNormalize ==
    /\ norm_in = None
    /\ norm_out = None
    /\ PredictIdle /\ DataModuleIdle /\ FolderIdle

NextNormalize ==
    /\ IsNone(norm_in)
    /\ \E pred_scores \in Vals, metadata \in NormalizeMetadata,
          anomaly_maps \in AnomalyMaps :
          Normalize(pred_scores, metadata, anomaly_maps)

SpecNormalize == InitNormalize /\ [][NextNormalize]_vars

-----------------------------------------------------------------------------
(* Claim C2 *)

BothKeys(metadata) == HasKey(metadata, "min") /\ HasKey(metadata, "max")

\* The thresholds the rescale reads are in the metadata.
ThresholdsPresent(metadata, anomaly_maps) ==
    /\ HasKey(metadata, "image_threshold")
    /\ IsNone(anomaly_maps) \/ HasKey(metadata, "pixel_threshold")

\* The pair the claim describes for a call that rescales.
Rescaled(in) ==
    Returned(IF IsNone(in.anomaly_maps) THEN None
             ELSE Some([i \in DOMAIN Get(in.anomaly_maps) |->
                          normalize_min_max(Get(in.anomaly_maps)[i],
                                            in.metadata["pixel_threshold"],
                                            in.metadata["min"], in.metadata["max"])]),
             normalize_min_max(in.pred_scores, in.metadata["image_threshold"],
                               in.metadata["min"], in.metadata["max"]))

\* C2 as stated: the rescale is applied exactly when the metadata has both
\* "min" and "max" (score with image_threshold, map with pixel_threshold);
\* otherwise score and map come back unchanged; a None map comes back None in
\* every case.
C2_Original ==
    ~IsNone(norm_in) =>
        LET in == Get(norm_in)
            out == Get(norm_out)
        IN  /\ out.raised = ""
            /\ BothKeys(in.metadata) =>
                  /\ HasKey(in.metadata, "image_threshold")
                  /\ out.pred_scores =
                       Some(normalize_min_max(in.pred_scores,
                                              in.metadata["image_threshold"],
                                              in.metadata["min"], in.metadata["max"]))
            /\ ~BothKeys(in.metadata) => out = Returned(in.anomaly_maps, in.pred_scores)
            /\ IsNone(in.anomaly_maps) => IsNone(out.anomaly_maps)

\* C2 amended: with both keys present the call rescales when the thresholds
\* it reads are in the metadata and raises KeyError otherwise; without both
\* keys it returns score and map unchanged; whenever it returns, a None map
\* comes back None.
C2_NormalizeRescale ==
    ~IsNone(norm_in) =>
        LET in == Get(norm_in)
            out == Get(norm_out)
        IN  /\ BothKeys(in.metadata) /\ ThresholdsPresent(in.metadata, in.anomaly_maps)
                  => out = Rescaled(in)
            /\ BothKeys(in.metadata) /\ ~ThresholdsPresent(in.metadata, in.anomaly_maps)
                  => out = Raised("KeyError")
            /\ ~BothKeys(in.metadata) => out = Returned(in.anomaly_maps, in.pred_scores)
            /\ IsNone(in.anomaly_maps) => IsNone(out.anomaly_maps)

\* A call with both keys and both thresholds, on a map, whose rescale changed
\* the score and the map.
C2_Witness ==
    /\ ~IsNone(norm_in)
    /\ BothKeys(Get(norm_in).metadata)
    /\ ~IsNone(Get(norm_in).anomaly_maps)
    /\ Get(norm_out).raised = ""
    /\ Get(norm_out).pred_scores # Some(Get(norm_in).pred_scores)
    /\ Get(norm_out).anomaly_maps # Get(norm_in).anomaly_maps
    /\ Get(norm_in).metadata["image_threshold"] # Get(norm_in).metadata["pixel_threshold"]

-----------------------------------------------------------------------------
(* datamodule.py: the dataset objects a datamodule holds                     *)
(* (anomalib.data.base.dataset.AnomalibDataset and anomalib.data.utils)      *)

NTrain == 3             \* rows the train dataset loads, all normal
NTestNormal == 1        \* normal rows the test dataset may load
NTestAbnormal == 2      \* abnormal rows the test dataset may load
MaxSetupCalls == 2      \* setup() calls in one behaviour

\* LabelName.NORMAL, LabelName.ABNORMAL
NORMAL == 0
ABNORMAL == 1

Row(id, label_index) == [id |-> id, label_index |-> label_index]

TrainRows == {Row(i, NORMAL) : i \in 1..NTrain}
TestNormalRows == {Row(NTrain + i, NORMAL) : i \in 1..NTestNormal}
TestAbnormalRows == {Row(NTrain + NTestNormal + i, ABNORMAL) : i \in 1..NTestAbnormal}

\* A dataset object: samples is None until the dataset is set up; source is
\* the table its _setup loads, and loadable says whether that _setup succeeds.
Dataset(source, loadable) == [samples |-> None, source |-> source, loadable |-> loadable]

\* AnomalibDataset.is_setup
dataset_is_setup(dataset) == ~IsNone(dataset.samples)

\* AnomalibDataset.setup(): load the samples unless they are loaded already.
dataset_setup(dataset) ==
    IF dataset_is_setup(dataset) THEN [dataset |-> dataset, raised |-> ""]
    ELSE IF dataset.loadable
         THEN [dataset |-> [dataset EXCEPT !.samples = Some(dataset.source)], raised |-> ""]
         ELSE [dataset |-> dataset, raised |-> "DatasetSetupError"]

\* AnomalibDataset.has_normal
has_normal(dataset) == \E r \in Get(dataset.samples) : r.label_index = NORMAL

\* AnomalibDataset.subsample: a copy of the dataset holding the given rows.
subsample(dataset, rows) == [dataset EXCEPT !.samples = Some(rows)]

\* split_by_label(dataset): (normal subset, abnormal subset)
split_by_label(dataset) ==
    [normal   |-> subsample(dataset, {r \in Get(dataset.samples) : r.label_index = NORMAL}),
     abnormal |-> subsample(dataset, {r \in Get(dataset.samples) : r.label_index = ABNORMAL})]

\* AnomalibDataset.__add__: the rows of both.
concatenate(dataset, other) ==
    subsample(dataset, Get(dataset.samples) \cup Get(other.samples))

\* The subset lengths random_split computes for ratios [1 - ratio, ratio]:
\* floor(n * ratio) each, the remainder handed out from the first subset on.
\* ratio is in percent.
split_lengths(n, ratio) ==
    LET l1 == (n * (100 - ratio)) \div 100
        l2 == (n * ratio) \div 100
        rest == n - l1 - l2
    IN  <<l1 + (IF rest >= 1 THEN 1 ELSE 0), l2 + (IF rest >= 2 THEN 1 ELSE 0)>>

\* The ways of cutting rows in two with the second part of split_lengths' size.
Cuts(rows, ratio) ==
    {[first |-> rows \ second, second |-> second] :
        second \in {x \in SUBSET rows :
                      Cardinality(x) = split_lengths(Cardinality(rows), ratio)[2]}}

\* random_split(dataset, ratio, label_aware, seed): every outcome of the random
\* permutation. With label_aware each label's rows are cut on their own and the
\* parts are joined.
random_split(dataset, ratio, label_aware) ==
    LET rows == Get(dataset.samples)
        normal == {r \in rows : r.label_index = NORMAL}
        abnormal == {r \in rows : r.label_index = ABNORMAL}
    IN  IF label_aware
        THEN {[first  |-> subsample(dataset, n.first \cup a.first),
               second |-> subsample(dataset, n.second \cup a.second)] :
                 n \in Cuts(normal, ratio), a \in Cuts(abnormal, ratio)}
        ELSE {[first  |-> subsample(dataset, c.first),
               second |-> subsample(dataset, c.second)] : c \in Cuts(rows, ratio)}

\* round(n / 2), as DataFrame.sample(frac=0.5) rounds (half to even).
half(n) ==
    LET k == n \div 2
    IN  IF n % 2 = 0 THEN k ELSE IF k % 2 = 0 THEN k ELSE k + 1

\* SyntheticAnomalyDataset.from_dataset(dataset): a new dataset, set up on
\* construction, in which a random half of the (normal) source rows became
\* abnormal.
from_dataset(dataset) ==
    LET rows == Get(dataset.samples)
    IN  {[samples  |-> Some((rows \ anomalous)
                            \cup {Row(r.id, ABNORMAL) : r \in anomalous}),
          source   |-> rows,
          loadable |-> TRUE] :
            anomalous \in {x \in SUBSET rows : Cardinality(x) = half(Cardinality(rows))}}

-----------------------------------------------------------------------------
(* datamodule.py: AnomalibDataModule *)

\* The members of the enums TestSplitMode and ValSplitMode, by value.
TestSplitMode == {"none", "from_dir", "synthetic"}
ValSplitMode == {"none", "same_as_test", "from_test", "synthetic"}

\* A value that is a member of neither enum.
Unsupported == "unsupported"

\* Split ratios, in percent.
Ratios == {20, 50}

\* hasattr(self, name)
hasattr(dm, name) == ~IsNone(dm[name])

\* What running a method ends with: the datamodule as it left it, and the
\* exception it raised ("" when it returned).
Ok(dm) == [dm |-> dm, raised |-> ""]
Fail(dm, exception) == [dm |-> dm, raised |-> exception]

\* Lines 171-182, with all in the place of any.
is_setup_All(dm) ==
    \A data \in {"train_data", "val_data", "test_data"} :
        hasattr(dm, data) /\ dataset_is_setup(Get(dm[data]))

\* Lines 171-182: AnomalibDataModule.is_setup
is_setup(dm) ==
    \E data \in {"train_data", "val_data", "test_data"} :
        hasattr(dm, data) /\ dataset_is_setup(Get(dm[data]))

\* The second statement of _create_test_split without its last branch.
test_split_by_mode_NoRaise(dm, normal_test_data) ==
    IF dm.test_split_mode = "from_dir"
    THEN IF IsNone(normal_test_data) THEN {Fail(dm, "UnboundLocalError")}
         ELSE {Ok([dm EXCEPT !.test_data =
                      Some(concatenate(Get(dm.test_data), Get(normal_test_data)))])}
    ELSE IF dm.test_split_mode = "synthetic"
    THEN IF IsNone(normal_test_data) THEN {Fail(dm, "UnboundLocalError")}
         ELSE {Ok([dm EXCEPT !.test_data = Some(synthetic)]) :
                  synthetic \in from_dataset(Get(normal_test_data))}
    ELSE {Ok(dm)}

\* Lines 142-148: the second statement of _create_test_split, on the
\* datamodule and the normal_test_data the first statement left (None when it
\* bound none).
test_split_by_mode(dm, normal_test_data) ==
    IF dm.test_split_mode = "from_dir"
    THEN IF IsNone(normal_test_data) THEN {Fail(dm, "UnboundLocalError")}
         ELSE {Ok([dm EXCEPT !.test_data =
                      Some(concatenate(Get(dm.test_data), Get(normal_test_data)))])}
    ELSE IF dm.test_split_mode = "synthetic"
    THEN IF IsNone(normal_test_data) THEN {Fail(dm, "UnboundLocalError")}
         ELSE {Ok([dm EXCEPT !.test_data = Some(synthetic)]) :
                  synthetic \in from_dataset(Get(normal_test_data))}
    ELSE IF dm.test_split_mode # "none"
    THEN {Fail(dm, "ValueError")}
    ELSE {Ok(dm)}

\* _create_test_split sampling from the train set whatever the mode is.
create_test_split_AnyMode(dm) ==
    LET test == Get(dm.test_data)
        first == IF has_normal(test)
                 THEN {[dm |-> [dm EXCEPT !.test_data = Some(split_by_label(test).abnormal)],
                        normal_test_data |-> Some(split_by_label(test).normal)]}
                 ELSE IF ~IsNone(dm.test_split_ratio)
                 THEN {[dm |-> [dm EXCEPT !.train_data = Some(s.first)],
                        normal_test_data |-> Some(s.second)] :
                          s \in random_split(Get(dm.train_data),
                                             Get(dm.test_split_ratio), FALSE)}
                 ELSE {[dm |-> dm, normal_test_data |-> None]}
    IN  UNION {test_split_by_mode(f.dm, f.normal_test_data) : f \in first}

\* Lines 127-148: every outcome of _create_test_split.
_create_test_split(dm) ==
    LET test == Get(dm.test_data)
        first == IF has_normal(test)
                 THEN {[dm |-> [dm EXCEPT !.test_data = Some(split_by_label(test).abnormal)],
                        normal_test_data |-> Some(split_by_label(test).normal)]}
                 ELSE IF dm.test_split_mode # "none" /\ ~IsNone(dm.test_split_ratio)
                 THEN {[dm |-> [dm EXCEPT !.train_data = Some(s.first)],
                        normal_test_data |-> Some(s.second)] :
                          s \in random_split(Get(dm.train_data),
                                             Get(dm.test_split_ratio), FALSE)}
                 ELSE {[dm |-> dm, normal_test_data |-> None]}
    IN  UNION {test_split_by_mode(f.dm, f.normal_test_data) : f \in first}

\* _create_val_split keeping the validation half of FROM_TEST to itself.
create_val_split_FromTestLost(dm) ==
    IF dm.val_split_mode = "from_test"
    THEN {Ok([dm EXCEPT !.test_data = Some(s.first)]) :
            s \in random_split(Get(dm.test_data), dm.val_split_ratio, TRUE)}
    ELSE IF dm.val_split_mode = "same_as_test"
    THEN {Ok([dm EXCEPT !.val_data = dm.test_data])}
    ELSE IF dm.val_split_mode = "synthetic"
    THEN UNION {{Ok([dm EXCEPT !.train_data = Some(s.first), !.val_data = Some(synthetic)]) :
                    synthetic \in from_dataset(s.second)} :
                  s \in random_split(Get(dm.train_data), dm.val_split_ratio, FALSE)}
    ELSE IF dm.val_split_mode # "none"
    THEN {Fail(dm, "ValueError")}
    ELSE {Ok(dm)}

\* Lines 150-169: every outcome of _create_val_split.
_create_val_split(dm) ==
    IF dm.val_split_mode = "from_test"
    THEN {Ok([dm EXCEPT !.test_data = Some(s.first), !.val_data = Some(s.second)]) :
            s \in random_split(Get(dm.test_data), dm.val_split_ratio, TRUE)}
    ELSE IF dm.val_split_mode = "same_as_test"
    THEN {Ok([dm EXCEPT !.val_data = dm.test_data])}
    ELSE IF dm.val_split_mode = "synthetic"
    THEN UNION {{Ok([dm EXCEPT !.train_data = Some(s.first), !.val_data = Some(synthetic)]) :
                    synthetic \in from_dataset(s.second)} :
                  s \in random_split(Get(dm.train_data), dm.val_split_ratio, FALSE)}
    ELSE IF dm.val_split_mode # "none"
    THEN {Fail(dm, "ValueError")}
    ELSE {Ok(dm)}

\* What a setup() call did: the datamodule as it left it, the exception it
\* raised, the calls it made in order, and the datamodule before and after
\* each split method.
Exec(dm, raised, trace, test_split, val_split) ==
    [dm |-> dm, raised |-> raised, trace |-> trace,
     test_split |-> test_split, val_split |-> val_split]

Snapshot(before, outcome) ==
    Some([before |-> before, after |-> outcome.dm, raised |-> outcome.raised])

\* Lines 124-125 of _setup, from the datamodule with both datasets set up.
setup_splits(dm) ==
    UNION {IF t.raised # ""
           THEN {Exec(t.dm, t.raised,
                      <<"_setup", "train_data.setup", "test_data.setup",
                        "_create_test_split">>,
                      Snapshot(dm, t), None)}
           ELSE {Exec(v.dm, v.raised,
                      <<"_setup", "train_data.setup", "test_data.setup",
                        "_create_test_split", "_create_val_split">>,
                      Snapshot(dm, t), Snapshot(t.dm, v)) :
                    v \in _create_val_split(t.dm)} :
             t \in _create_test_split(dm)}

\* Lines 106-125: every outcome of _setup. train_data and test_data are set by
\* the subclass constructor, so the two assertions hold.
_setup(dm) ==
    LET train == dataset_setup(Get(dm.train_data))
        dm1 == [dm EXCEPT !.train_data = Some(train.dataset)]
        test == dataset_setup(Get(dm.test_data))
        dm2 == [dm1 EXCEPT !.test_data = Some(test.dataset)]
    IN  IF train.raised # ""
        THEN {Exec(dm, train.raised, <<"_setup", "train_data.setup">>, None, None)}
        ELSE IF test.raised # ""
        THEN {Exec(dm1, test.raised,
                   <<"_setup", "train_data.setup", "test_data.setup">>, None, None)}
        ELSE setup_splits(dm2)

\* Line 104: assert self.is_setup
assert_is_setup(exec) ==
    IF exec.raised = "" /\ ~is_setup(exec.dm)
    THEN [exec EXCEPT !.raised = "AssertionError"]
    ELSE exec

\* setup without the is_setup guard.
setup_NoGuard(dm, stage) == {assert_is_setup(e) : e \in _setup(dm)}

\* Lines 95-104: every outcome of setup(stage).
setup(dm, stage) ==
    IF ~is_setup(dm)
    THEN {assert_is_setup(e) : e \in _setup(dm)}
    ELSE {assert_is_setup(Exec(dm, "", <<>>, None, None))}

Count(trace, name) == Cardinality({i \in DOMAIN trace : trace[i] = name})

-----------------------------------------------------------------------------
(* datamodule.py: the operations on a datamodule *)

\* The arguments of __init__: "" stands for None.
TestSplitModeArgs == TestSplitMode \cup {"", Unsupported}
ValSplitModeArgs == ValSplitMode \cup {"", Unsupported}
TestSplitRatioArgs == {None} \cup {Some(r) : r \in Ratios}
TestSources == {a \cup n : a \in {{}, TestAbnormalRows}, n \in {{}, TestNormalRows}}
Stages == {"", "fit", "test"}

ConstructArgs ==
    [test_split_mode : TestSplitModeArgs, test_split_ratio : TestSplitRatioArgs,
     val_split_mode : ValSplitModeArgs, val_split_ratio : Ratios,
     test_source : TestSources, train_loadable : BOOLEAN, test_loadable : BOOLEAN]

\* Lines 68-93, followed by the subclass constructor's assignments of
\* train_data and test_data (folder_3d.py lines 375-403). An Enum called on a
\* value that is not one of its members raises ValueError. test_source is the
\* table the test dataset loads; train_loadable and test_loadable say whether
\* the datasets' own _setup succeeds.
Construct(a) ==
    /\ IsNone(datamodule)
    /\ last.op = "none"
    /\ IF (a.test_split_mode # "" /\ a.test_split_mode \notin TestSplitMode)
          \/ a.val_split_mode \notin ValSplitMode
       THEN /\ datamodule' = None
            /\ last' = [NoLast EXCEPT !.op = "__init__", !.raised = "ValueError"]
       ELSE /\ datamodule' =
                 Some([test_split_mode  |-> IF a.test_split_mode # ""
                                            THEN a.test_split_mode ELSE "none",
                       test_split_ratio |-> a.test_split_ratio,
                       val_split_mode   |-> a.val_split_mode,
                       val_split_ratio  |-> a.val_split_ratio,
                       train_data       |-> Some(Dataset(TrainRows, a.train_loadable)),
                       val_data         |-> None,
                       test_data        |-> Some(Dataset(a.test_source, a.test_loadable))])
            /\ last' = [NoLast EXCEPT !.op = "__init__"]
    /\ UNCHANGED runs
    /\ UNCHANGED <<predictVars, normalizeVars, folderVars>>

\* datamodule.setup(stage)
Setup(stage) ==
    /\ ~IsNone(datamodule)
    /\ runs.setup < MaxSetupCalls
    /\ \E e \in setup(Get(datamodule), stage) :
          /\ datamodule' = Some(e.dm)
          /\ last' = [op |-> "setup", stage |-> stage, raised |-> e.raised,
                      before |-> datamodule,
                      trace |-> e.trace, test_split |-> e.test_split,
                      val_split |-> e.val_split]
          /\ runs' = [setup |-> runs.setup + 1,
                      returned |-> runs.returned + (IF e.raised = "" THEN 1 ELSE 0),
                      setup_body |-> runs.setup_body + Count(e.trace, "_setup"),
                      test_data_setup |-> runs.test_data_setup
                         + Count(e.trace, "test_data.setup"),
                      create_test_split |-> runs.create_test_split
                         + Count(e.trace, "_create_test_split"),
                      create_val_split |-> runs.create_val_split
                         + Count(e.trace, "_create_val_split")]
    /\ UNCHANGED <<predictVars, normalizeVars, folderVars>>

\* datamodule.train_data.setup() or datamodule.test_data.setup(), called on
\* the dataset object itself.
DatasetSetup(name) ==
    /\ ~IsNone(datamodule)
    /\ hasattr(Get(datamodule), name)
    /\ ~dataset_is_setup(Get(Get(datamodule)[name]))
    /\ LET dm == Get(datamodule)
           r == dataset_setup(Get(dm[name]))
       IN /\ datamodule' = Some([dm EXCEPT ![name] = Some(r.dataset)])
          /\ last' = [NoLast EXCEPT !.op = "dataset.setup", !.raised = r.raised]
    /\ UNCHANGED runs
    /\ UNCHANGED <<predictVars, normalizeVars, folderVars>>

\* datamodule.test_split_mode = value, datamodule.val_split_mode = value: the
\* attributes are plain attributes, and an assignment converts nothing. Only
\* the assignment of a value outside the enum is modelled: a member of the
\* enum gives a datamodule that __init__ gives as well.
AssignSplitMode(name, value) ==
    /\ ~IsNone(datamodule)
    /\ runs.setup = 0
    /\ Get(datamodule)[name] # value
    /\ datamodule' = Some([Get(datamodule) EXCEPT ![name] = value])
    /\ last' = [NoLast EXCEPT !.op = "assign"]
    /\ UNCHANGED runs
    /\ UNCHANGED <<predictVars, normalizeVars, folderVars>>

InitDataModule ==
    /\ datamodule = None
    /\ last = NoLast
    /\ runs = NoRuns
    /\ PredictIdle /\ NormalizeIdle /\ FolderIdle

NextDataModule ==
    \/ /\ IsNone(datamodule)
       /\ \E a \in ConstructArgs : Construct(a)
    \/ \E stage \in Stages : Setup(stage)
    \/ \E name \in {"train_data", "test_data"} : DatasetSetup(name)
    \/ AssignSplitMode("test_split_mode", Unsupported)
    \/ AssignSplitMode("val_split_mode", Unsupported)

SpecDataModule == InitDataModule /\ [][NextDataModule]_vars

-----------------------------------------------------------------------------
(* Claims C3 to C8 *)

TheData(dm) == <<dm.train_data, dm.val_data, dm.test_data>>

\* C3: _create_test_split raises ValueError whenever test_split_mode is none
\* of NONE, FROM_DIR, SYNTHETIC, and _create_val_split raises ValueError
\* whenever val_split_mode is none of NONE, SAME_AS_TEST, FROM_TEST,
\* SYNTHETIC; the exception leaves setup(), the method is not run again and
\* nothing is run after it.
C3_UnsupportedModeRaises ==
    /\ ~IsNone(last.test_split)
       /\ Get(last.test_split).before.test_split_mode \notin {"none", "from_dir", "synthetic"}
       => /\ Get(last.test_split).raised = "ValueError"
          /\ last.raised = "ValueError"
          /\ Count(last.trace, "_create_test_split") = 1
          /\ last.trace[Len(last.trace)] = "_create_test_split"
    /\ ~IsNone(last.val_split)
       /\ Get(last.val_split).before.val_split_mode
             \notin {"none", "same_as_test", "from_test", "synthetic"}
       => /\ Get(last.val_split).raised = "ValueError"
          /\ last.raised = "ValueError"
          /\ Count(last.trace, "_create_val_split") = 1
          /\ last.trace[Len(last.trace)] = "_create_val_split"
          /\ Get(last.val_split).after = Get(last.val_split).before

\* _create_test_split has run on a mode outside the enum and raised.
C3_Witness ==
    /\ last.op = "setup"
    /\ ~IsNone(last.test_split)
    /\ Get(last.test_split).before.test_split_mode = Unsupported
    /\ last.raised = "ValueError"

\* C4 as stated: _setup runs at most once over any sequence of setup() calls,
\* and a setup() call made while is_setup is true leaves train_data, val_data
\* and test_data unchanged.
C4_Original ==
    /\ runs.setup_body <= 1
    /\ last.op = "setup" /\ is_setup(Get(last.before))
          => TheData(Get(datamodule)) = TheData(Get(last.before))

\* C4 amended: _setup gets past its first call, train_data.setup(), at most
\* once, so each split method runs at most once; and a setup() call made while
\* is_setup is true runs nothing and leaves the datamodule unchanged.
C4_SetupIdempotent ==
    /\ runs.test_data_setup <= 1
    /\ runs.create_test_split <= 1
    /\ runs.create_val_split <= 1
    /\ last.op = "setup" /\ is_setup(Get(last.before))
          => /\ last.trace = <<>>
             /\ datamodule = last.before

\* A second setup() call after one that ran both splits.
C4_Witness ==
    /\ last.op = "setup"
    /\ runs.setup = 2
    /\ runs.create_val_split = 1
    /\ is_setup(Get(last.before))
    /\ last.trace = <<>>

C6_IsSetupIffSetupCompleted ==
    ~IsNone(datamodule) => (is_setup(Get(datamodule)) <=> runs.returned >= 1)

\* C7: whenever _setup completes without raising, is_setup is true and the
\* assertion at the end of setup() passes, whatever the split modes are.
C7_AssertionHolds ==
    last.op = "setup"
        => /\ last.raised # "AssertionError"
           /\ last.raised = "" => is_setup(Get(datamodule))

\* _setup has completed with both split modes SYNTHETIC.
C7_Witness ==
    /\ last.op = "setup"
    /\ last.raised = ""
    /\ Len(last.trace) = 5
    /\ Get(last.before).test_split_mode = "synthetic"
    /\ Get(last.before).val_split_mode = "synthetic"

\* C8: _create_test_split changes train_data only when the test data holds no
\* normal rows and test_split_mode is not NONE; with normal rows in the test
\* data, or with mode NONE, train_data is left unchanged.
C8_TrainDataFrame ==
    ~IsNone(last.test_split) =>
        LET before == Get(last.test_split).before
            after == Get(last.test_split).after
        IN  /\ after.train_data # before.train_data
                 => /\ ~has_normal(Get(before.test_data))
                    /\ before.test_split_mode # "none"
            /\ has_normal(Get(before.test_data)) \/ before.test_split_mode = "none"
                 => after.train_data = before.train_data

\* _create_test_split has taken rows out of the train set.
C8_Witness ==
    /\ ~IsNone(last.test_split)
    /\ Get(last.test_split).raised = ""
    /\ Get(Get(last.test_split).after.train_data).samples
         # Get(Get(last.test_split).before.train_data).samples
    /\ Get(Get(last.test_split).after.test_data).samples # Some({})

-----------------------------------------------------------------------------
(* folder_3d.py: make_folder3d_dataset *)

MaxFiles == 2       \* a directory holds the files with stems 1..n, n <= MaxFiles

\* The values of DirType.
DirType ==
    {"normal", "abnormal", "normal_test", "normal_depth", "abnormal_depth",
     "normal_test_depth", "mask_dir"}

\* The values of Split; "" stands for no split argument (None).
Split == {"train", "val", "test"}

\* A directory argument other than normal_dir is None or Some(stems of the
\* image files the directory holds).
DirArgs == {None} \cup {Some(1..n) : n \in 0..MaxFiles}

\* normal_dir names nothing, a file that is not a directory, or a directory
\* with its image files.
NormalDirArgs ==
    {[exists |-> FALSE, is_dir |-> FALSE, files |-> {}],
     [exists |-> TRUE, is_dir |-> FALSE, files |-> {}]}
        \cup {[exists |-> TRUE, is_dir |-> TRUE, files |-> 1..n] : n \in 0..MaxFiles}

\* The directories whose files become depth and mask paths.
CheckedDirs == {"normal_depth", "abnormal_depth", "normal_test_depth", "mask_dir"}

\* The listed files that Path.exists() is false of (links to nothing): none,
\* or the first file of one of the depth and mask directories.
BrokenArgs == {{}} \cup {{[dir |-> t, stem |-> 1]} : t \in CheckedDirs}

\* The arguments of a call together with the state of the file system it
\* reads (broken).
FolderArgsWith(splits, broken_args) ==
    [normal_dir : NormalDirArgs,
     abnormal_dir : DirArgs, normal_test_dir : DirArgs, mask_dir : DirArgs,
     normal_depth_dir : DirArgs, abnormal_depth_dir : DirArgs,
     normal_test_depth_dir : DirArgs,
     split : splits,
     broken : broken_args]

\* Calls on directories all of whose listed files exist.
FolderArgs == FolderArgsWith(Split \cup {""}, {{}})

\* Calls with no split argument on directories that may list a broken file.
BrokenFolderArgs == FolderArgsWith({""}, BrokenArgs)

\* Lines 83-101: the dict dirs, as a function from the DirType keys it holds.
dirs(a) ==
    LET given == [normal            |-> Some(a.normal_dir.files),
                  abnormal          |-> a.abnormal_dir,
                  normal_test       |-> a.normal_test_dir,
                  normal_depth      |-> a.normal_depth_dir,
                  abnormal_depth    |-> a.abnormal_depth_dir,
                  normal_test_depth |-> a.normal_test_depth_dir,
                  mask_dir          |-> a.mask_dir]
    IN  [t \in {x \in DirType : ~IsNone(given[x])} |-> Get(given[t])]

\* A path: the directory (by its DirType) and the file's stem.
Path(dir_type, stem) == [dir |-> dir_type, stem |-> stem]

\* Lines 103-109: one row per file of every directory of dirs, labelled with
\* the directory's DirType. The table is kept as the set of its rows: sorting
\* by image_path puts the files of one directory in the order of their stems,
\* which is all the later statements read of the order.
gather(a) ==
    UNION {{[image_path |-> Path(t, f), label |-> t] : f \in dirs(a)[t]} :
             t \in DOMAIN dirs(a)}

\* _prepare_files_labels raises RuntimeError for a directory without image
\* files.
EmptyDirectory(a) == \E t \in DOMAIN dirs(a) : dirs(a)[t] = {}

\* Lines 112-117 with the two label indexes swapped.
label_index_Swapped(label) ==
    IF label \in {"normal", "normal_test"} THEN Some(ABNORMAL)
    ELSE IF label = "abnormal" THEN Some(NORMAL)
    ELSE None

\* Lines 112-117: the label_index of a row, None where none is assigned.
label_index(label) ==
    IF label \in {"normal", "normal_test"} THEN Some(NORMAL)
    ELSE IF label = "abnormal" THEN Some(ABNORMAL)
    ELSE None

\* The stems of the rows of one label, and positions in their sorted order.
Stems(rows, label) == {r.image_path.stem : r \in {x \in rows : x.label = label}}
Rank(stems, stem) == Cardinality({y \in stems : y <= stem})
Nth(stems, k) == CHOOSE x \in stems : Rank(stems, x) = k

\* samples.loc[label == target, column] = samples.loc[label == source]
\*     .image_path.to_numpy(): the k-th target row gets the k-th source path.
Assigned(rows, row, source) ==
    Path(source, Nth(Stems(rows, source), Rank(Stems(rows, row.label), row.image_path.stem)))

\* Such an assignment raises ValueError when the two selections differ in
\* length.
LengthMismatch(rows, target, source) ==
    Cardinality(Stems(rows, target)) # Cardinality(Stems(rows, source))

\* Lines 120-131: the (target, source) pairs of the depth assignments made.
depth_pairs(a) ==
    IF IsNone(a.normal_depth_dir) THEN {}
    ELSE {<<"normal", "normal_depth">>, <<"abnormal", "abnormal_depth">>}
            \cup (IF IsNone(a.normal_test_dir) THEN {}
                  ELSE {<<"normal_test", "normal_test_depth">>})

\* The depth_path of a row: None where the column is missing or holds no path.
depth_path(a, rows, row) ==
    IF \E p \in depth_pairs(a) : p[1] = row.label
    THEN Some(Assigned(rows, row,
                       (CHOOSE p \in depth_pairs(a) : p[1] = row.label)[2]))
    ELSE None

\* Lines 134-140: Path(x.image_path).stem in Path(x.depth_path).stem for the
\* abnormal rows. Stems are numbers here: one is in the other when they are
\* equal.
depth_stems_match(a, rows) ==
    \A r \in {x \in rows : x.label = "abnormal"} :
        r.image_path.stem = Get(depth_path(a, rows, r)).stem

\* Path(x).exists() for a listed file.
exists(a, path) == path \notin a.broken

\* Lines 142-144 without the check.
depth_files_exist_Unchecked(a, rows) == TRUE

\* Lines 142-144: every depth_path that is not NaN exists.
depth_files_exist(a, rows) ==
    \A r \in rows :
        ~IsNone(depth_path(a, rows, r)) => exists(a, Get(depth_path(a, rows, r)))

\* Lines 149-161: the mask_path of a row, None for "".
mask_path(a, rows, row) ==
    IF ~IsNone(a.mask_dir) /\ ~IsNone(a.abnormal_dir) /\ row.label = "abnormal"
    THEN Some(Assigned(rows, row, "mask_dir"))
    ELSE None

\* Lines 157-159: every mask_path that is not "" exists.
mask_files_exist(a, rows) ==
    \A r \in rows :
        ~IsNone(mask_path(a, rows, r)) => exists(a, Get(mask_path(a, rows, r)))

\* Lines 175-176 with every row assigned to the train split.
split_of_AllTrain(label) == "train"

\* Lines 175-176: the split of a row.
split_of(label) == IF label = "normal" THEN "train" ELSE "test"

\* Lines 164-166 without the filter.
sample_rows_Unfiltered(rows) == rows

\* Lines 164-166: the rows that are samples.
sample_rows(rows) == {r \in rows : r.label \in {"normal", "abnormal", "normal_test"}}

\* Lines 179-181 selecting the rows of the other splits.
select_split_Others(rows, split) ==
    IF split # "" THEN {r \in rows : r.split # split} ELSE rows

\* Lines 179-181: the rows of the requested split.
select_split(rows, split) ==
    IF split # "" THEN {r \in rows : r.split = split} ELSE rows

TableReturned(table) == [raised |-> "", table |-> table]
FolderRaised(exception) == [raised |-> exception, table |-> {}]

\* validate_and_resolve_path(normal_dir, root): the exceptions it can leave
\* with, "" for a return. Of a path that names nothing it either returns the
\* resolved path or raises FileNotFoundError.
validate_and_resolve_path(dir) ==
    IF dir.exists THEN {""} ELSE {"", "FileNotFoundError"}

\* Lines 134-140 on a table without abnormal rows: apply(..., axis=1) over no
\* rows gives back the empty frame, and all() of a frame is a Series, not a
\* bool. The assert of it passes ("") or raises ValueError, by what pandas
\* makes of the truth value of a Series.
assert_of_empty_apply == {"", "ValueError"}

\* Lines 79-183: make_folder3d_dataset from its first assertion on.
folder3d_body(a, empty_apply) ==
    LET rows == gather(a)
        full(r) == [image_path  |-> r.image_path,
                    label       |-> r.label,
                    label_index |-> label_index(r.label),
                    depth_path  |-> depth_path(a, rows, r),
                    mask_path   |-> mask_path(a, rows, r),
                    split       |-> split_of(r.label)]
    IN  IF ~a.normal_dir.is_dir THEN FolderRaised("AssertionError")
        ELSE IF EmptyDirectory(a) THEN FolderRaised("RuntimeError")
        ELSE IF \E p \in depth_pairs(a) : LengthMismatch(rows, p[1], p[2])
        THEN FolderRaised("ValueError")
        ELSE IF ~IsNone(a.normal_depth_dir) /\ Stems(rows, "abnormal") = {}
                /\ empty_apply # ""
        THEN FolderRaised(empty_apply)
        ELSE IF ~IsNone(a.normal_depth_dir) /\ ~depth_stems_match(a, rows)
        THEN FolderRaised("AssertionError")
        ELSE IF ~IsNone(a.normal_depth_dir) /\ ~depth_files_exist(a, rows)
        THEN FolderRaised("AssertionError")
        ELSE IF ~IsNone(a.mask_dir) /\ ~IsNone(a.abnormal_dir)
                /\ LengthMismatch(rows, "abnormal", "mask_dir")
        THEN FolderRaised("ValueError")
        ELSE IF ~IsNone(a.mask_dir) /\ ~IsNone(a.abnormal_dir)
                /\ ~mask_files_exist(a, rows)
        THEN FolderRaised("AssertionError")
        ELSE TableReturned(select_split({full(r) : r \in sample_rows(rows)}, a.split))

\* Lines 71-183: the outcomes of make_folder3d_dataset.
make_folder3d_dataset(a) ==
    {IF v = "" THEN folder3d_body(a, e) ELSE FolderRaised(v) :
        v \in validate_and_resolve_path(a.normal_dir), e \in assert_of_empty_apply}

\* Lines 251-264: Folder3DDataset._setup calls make_folder3d_dataset with the
\* dataset's directories and its split.
Folder3DDataset_setup(self) == make_folder3d_dataset(self)

\* Lines 375-403: the train and the test dataset Folder3D.__init__ builds from
\* its directory arguments.
Folder3D_train_data(a) == [a EXCEPT !.split = "train"]
Folder3D_test_data(a) == [a EXCEPT !.split = "test"]

\* A call make_folder3d_dataset(...). The function reads its arguments and
\* the directories only: a behaviour is one call.
MakeFolder3dDataset(a) ==
    /\ IsNone(folder_args)
    /\ folder_args' = Some([caller |-> "call", args |-> a])
    /\ \E out \in make_folder3d_dataset(a) : folder_out' = Some(out)
    /\ UNCHANGED <<predictVars, normalizeVars, dmVars>>

\* Folder3D(...).train_data.setup() or Folder3D(...).test_data.setup() on a
\* dataset that is not set up.
Folder3DSetup(a, data) ==
    /\ IsNone(folder_args)
    /\ a.split = ""
    /\ LET self == IF data = "train_data" THEN Folder3D_train_data(a)
                   ELSE Folder3D_test_data(a)
       IN /\ folder_args' = Some([caller |-> data, args |-> self])
          /\ \E out \in Folder3DDataset_setup(self) : folder_out' = Some(out)
    /\ UNCHANGED <<predictVars, normalizeVars, dmVars>>

InitFolder3D ==
    /\ folder_args = None
    /\ folder_out = None
    /\ PredictIdle /\ NormalizeIdle /\ DataModuleIdle

NextFolder3D ==
    /\ IsNone(folder_args)
    /\ \/ \E a \in FolderArgs : MakeFolder3dDataset(a)
       \/ \E a \in FolderArgs, data \in {"train_data", "test_data"} :
             Folder3DSetup(a, data)

SpecFolder3D == InitFolder3D /\ [][NextFolder3D]_vars

\* The same call on directories that may list a file that does not exist.
NextFolder3DBroken ==
    /\ IsNone(folder_args)
    /\ \E a \in BrokenFolderArgs : MakeFolder3dDataset(a)

SpecFolder3DBroken == InitFolder3D /\ [][NextFolder3DBroken]_vars

-----------------------------------------------------------------------------
(* Claims C9 and C10 *)

\* The image files of a directory argument, as paths.
FilesOf(dir_type, dir_arg) ==
    IF IsNone(dir_arg) THEN {} ELSE {Path(dir_type, f) : f \in Get(dir_arg)}

\* C9: every row of a returned table has label_index NORMAL if its file came
\* from normal_dir or normal_test_dir and ABNORMAL if it came from
\* abnormal_dir; no row has a missing or another label_index, and no file of
\* a depth or mask directory is a row.
C9_LabelsNormalOrAbnormal ==
    ~IsNone(folder_out) /\ Get(folder_out).raised = "" =>
        \A r \in Get(folder_out).table :
            /\ r.image_path.dir \in {"normal", "abnormal", "normal_test"}
            /\ r.image_path.dir \in {"normal", "normal_test"} => r.label_index = Some(NORMAL)
            /\ r.image_path.dir = "abnormal" => r.label_index = Some(ABNORMAL)
            /\ r.label_index \in {Some(NORMAL), Some(ABNORMAL)}

\* A table with normal, abnormal and normal test rows was returned by a call
\* that also listed depth and mask directories.
C9_Witness ==
    /\ ~IsNone(folder_out)
    /\ Get(folder_out).raised = ""
    /\ {r.image_path.dir : r \in Get(folder_out).table} = {"normal", "abnormal", "normal_test"}
    /\ ~IsNone(Get(folder_args).args.mask_dir)
    /\ ~IsNone(Get(folder_args).args.normal_depth_dir)

\* C10: every row from normal_dir is in the train split and every row from
\* abnormal_dir or normal_test_dir in the test split; with a split argument
\* the returned table holds exactly the samples of that split, without one it
\* holds all of them.
C10_SplitAssignment ==
    ~IsNone(folder_out) /\ Get(folder_out).raised = "" =>
        LET a == Get(folder_args).args
            table == Get(folder_out).table
            train == FilesOf("normal", Some(a.normal_dir.files))
            test == FilesOf("abnormal", a.abnormal_dir)
                       \cup FilesOf("normal_test", a.normal_test_dir)
        IN  /\ \A r \in table :
                  /\ r.image_path \in train => r.split = "train"
                  /\ r.image_path \in test => r.split = "test"
            /\ {r.image_path : r \in table} =
                  IF a.split = "train" THEN train
                  ELSE IF a.split = "test" THEN test
                  ELSE IF a.split = "" THEN train \cup test
                  ELSE {}
            /\ Cardinality(table) = Cardinality({r.image_path : r \in table})

\* The test dataset of a Folder3D got abnormal and normal test rows.
C10_Witness ==
    /\ ~IsNone(folder_out)
    /\ Get(folder_out).raised = ""
    /\ Get(folder_args).caller = "test_data"
    /\ {r.image_path.dir : r \in Get(folder_out).table} = {"abnormal", "normal_test"}

-----------------------------------------------------------------------------
(* Claim C11 *)

\* The depth assignments of lines 121-131 in the order of the statements.
DepthOrder ==
    <<<<"normal", "normal_depth">>, <<"abnormal", "abnormal_depth">>,
      <<"normal_test", "normal_test_depth">>>>

\* The call got as far as the first depth assignment.
TableGathered(a) == a.normal_dir.is_dir /\ ~EmptyDirectory(a)

\* Some depth assignment could not be carried out.
DepthMismatch(a) ==
    \E p \in depth_pairs(a) : LengthMismatch(gather(a), p[1], p[2])

\* The depth assignments that were carried out: a statement runs when those
\* before it did not raise.
DepthAssigned(a) ==
    {DepthOrder[j] : j \in {i \in 1..3 :
        \A k \in 1..i : /\ DepthOrder[k] \in depth_pairs(a) \/ k < i
                        /\ DepthOrder[k] \in depth_pairs(a)
                             => ~LengthMismatch(gather(a), DepthOrder[k][1], DepthOrder[k][2])}}

\* A depth path that does not exist was assigned to a sample.
DepthAssignedMissing(a) ==
    /\ TableGathered(a)
    /\ \E p \in DepthAssigned(a) : \E r \in gather(a) :
          r.label = p[1] /\ ~exists(a, Assigned(gather(a), r, p[2]))

\* A mask path that does not exist was assigned to an abnormal sample.
MaskAssignedMissing(a) ==
    /\ TableGathered(a)
    /\ ~IsNone(a.mask_dir) /\ ~IsNone(a.abnormal_dir)
    /\ ~IsNone(a.normal_depth_dir) =>
          /\ ~DepthMismatch(a)
          /\ depth_stems_match(a, gather(a))
          /\ depth_files_exist(a, gather(a))
    /\ ~LengthMismatch(gather(a), "abnormal", "mask_dir")
    /\ ~mask_files_exist(a, gather(a))

\* Every depth_path and mask_path of a returned row exists.
TableFilesExist(a, table) ==
    \A r \in table :
        /\ ~IsNone(r.depth_path) => exists(a, Get(r.depth_path))
        /\ ~IsNone(r.mask_path) => exists(a, Get(r.mask_path))

=============================================================================
